---- MODULE Spec2Model ----
(***************************************************************************)
(* The Lorenz-attractor simulation core of src/script.js: the trajectory   *)
(* collection lorenzSystem, the shared params object, the isAnimating      *)
(* flag, the requestAnimationFrame loop and the dat.GUI handlers.          *)
(*                                                                         *)
(* Numbers.  JavaScript numbers are modelled as scaled integers:           *)
(*   coordinates x, y, z          thousandths                              *)
(*   params.sigma, params.rho     units                                    *)
(*   params.beta                  thirds        (8/3 is 8)                 *)
(*   params.dt                    ten-thousandths (0.01 is 100)            *)
(*   params.animationSpeed        tenths        (1 is 10, 0.5 is 5)        *)
(*   params.traceLength           points                                   *)
(* Products are divided back to thousandths with \div, so a step is        *)
(* computed to finite precision, as the floating-point step is.            *)
(* A Float32Array element holds a rounded copy of the number stored into   *)
(* it (Fround).                                                            *)
(*                                                                         *)
(* The scene graph (meshes, materials, camera, scene rotation, needsUpdate *)
(* flags) is not part of the state; the draw range of each line geometry   *)
(* is, because it is the window of the buffer that is exposed for drawing. *)
(***************************************************************************)
EXTENDS Integers, Sequences, FiniteSets, TLC

VARIABLES
    params,        \* the params object (script.js 15-26)
    lorenzSystem,  \* the array of traces (script.js 6, 88-116)
    isAnimating,   \* script.js 8
    rafCallbacks,  \* animate callbacks registered with requestAnimationFrame
    frameQueue,    \* callbacks of the display frame in progress still to run
    nextBuffer,    \* identity the next Float32Array allocated will have
    edits,         \* history: slider edits made so far
    lastOp         \* history: the handler that ran last

vars == <<params, lorenzSystem, isAnimating, rafCallbacks, frameQueue,
          nextBuffer, edits, lastOp>>

----------------------------------------------------------------------------
(* Bounds of the model *)

\* points per trace buffer (100000 in the program, script.js 97)
Capacity == 3
\* appends a trace may receive beyond Capacity since its creation or clear
ExtraAppends == 1
\* animate callbacks that may be registered at once
MaxCallbacks == 2
\* slider edits of sigma, rho, beta, dt, animationSpeed, traceLength
MaxEdits == 1
MaxAppends == Capacity + ExtraAppends

----------------------------------------------------------------------------
(* Program constants *)

initialSigma == 10
initialRho == 28
\* 8/3, in thirds
initialBeta == 8
\* numTraces: 3 and generateRandomStartPoints(3)
initialNumTraces == 3
\* the upper end of the numTraces slider
maxNumTraces == 10
\* the count of a BufferGeometry's draw range before setDrawRange is called
Infinity == 999999

----------------------------------------------------------------------------
(* Inputs: the values the sliders and Math.random() are given in the model *)

SigmaSet == {initialSigma, 20}
RhoSet == {initialRho, 14}
BetaSet == {initialBeta, 3}
DtSet == {100, 50}
AnimationSpeedSet == {5, 10, 20}
TraceLengthSet == {1, 2, 1000}
NumTracesSet == {2, 3}
\* (randX, randY, randZ): Math.random() * 20 for each coordinate
Anchors == {<<100, 0, 0>>}
\* Math.random() * 0.02 for each coordinate of the points pushed, one run
\* of the generator's loop per element: every draw 0, or draws that differ
\* from point to point
JitterRuns == { [i \in 1..maxNumTraces |-> <<0, 0, 0>>],
                [i \in 1..maxNumTraces |-> <<2 * i - 2, i, 19 - i>>] }

----------------------------------------------------------------------------
(* Helpers *)

Max(a, b) == IF a >= b THEN a ELSE b
Min(a, b) == IF a <= b THEN a ELSE b

\* The number stored by writing v into a Float32Array element: v rounded to
\* the coarser grid of single precision.
Fround(v) == 2 * (v \div 2)

\* new Float32Array(n): n zeros
Float32Array(n) == [k \in 1..n |-> 0]

\* LoopCount with the loop test written i <= speed
LoopCountInclusive(speed) == IF speed < 0 THEN 0 ELSE speed \div 10 + 1

\* iterations of "for (let i = 0; i < speed; i++)", speed in tenths
LoopCount(speed) == IF speed <= 0 THEN 0 ELSE (speed + 9) \div 10

----------------------------------------------------------------------------
(* generateRandomStartPoints (script.js 208-221): the sequences it can     *)
(* return for numPoints.                                                   *)

generateRandomStartPoints(numPoints) ==
    { [i \in 1..numPoints |-> [x |-> a[1] + j[i][1],
                               y |-> a[2] + j[i][2],
                               z |-> a[3] + j[i][3]]] :
        a \in Anchors, j \in JitterRuns }

----------------------------------------------------------------------------
(* The program state as one record, so that handlers compose *)

Cur == [params |-> params, lorenzSystem |-> lorenzSystem,
        isAnimating |-> isAnimating, rafCallbacks |-> rafCallbacks,
        nextBuffer |-> nextBuffer]

\* startPoints[i % startPoints.length], i counted from 0
StartPointOf(p, i) == p.startPoints[(i % Len(p.startPoints)) + 1]

----------------------------------------------------------------------------
(* lorenzDerivatives (script.js 189-194) *)

lorenzDerivatives(p, x, y, z) ==
    [dx |-> p.sigma * (y - x),
     dy |-> (x * (p.rho * 1000 - z)) \div 1000 - y,
     dz |-> (x * y) \div 1000 - (p.beta * z) \div 3]

\* eulerStep in which y and z are derived from coordinates already stepped
eulerStepSequential(p, trace) ==
    LET nx == trace.x + (lorenzDerivatives(p, trace.x, trace.y, trace.z).dx * p.dt) \div 10000
        ny == trace.y + (lorenzDerivatives(p, nx, trace.y, trace.z).dy * p.dt) \div 10000
        nz == trace.z + (lorenzDerivatives(p, nx, ny, trace.z).dz * p.dt) \div 10000
    IN [x |-> nx, y |-> ny, z |-> nz]

\* One Euler step of a trace's state (script.js 123-126)
eulerStep(p, trace) ==
    LET d == lorenzDerivatives(p, trace.x, trace.y, trace.z)
    IN [x |-> trace.x + (d.dx * p.dt) \div 10000,
        y |-> trace.y + (d.dy * p.dt) \div 10000,
        z |-> trace.z + (d.dz * p.dt) \div 10000]

\* The point as three Float32Array elements hold it
stored(pt) == <<Fround(pt.x), Fround(pt.y), Fround(pt.z)>>

\* writePoint into the slot after index, as if currentIndex were advanced
\* before the point is stored
writePointAfterAdvance(positions, index, pt) ==
    LET at == (index + 1) % (Len(positions) \div 3)
    IN [positions EXCEPT ![at * 3 + 1] = stored(pt)[1],
                         ![at * 3 + 2] = stored(pt)[2],
                         ![at * 3 + 3] = stored(pt)[3]]

\* positions[index * 3 + c] = ..., c = 0, 1, 2 (script.js 128-130); the
\* array is indexed from 1 here
writePoint(positions, index, pt) ==
    [positions EXCEPT ![index * 3 + 1] = stored(pt)[1],
                      ![index * 3 + 2] = stored(pt)[2],
                      ![index * 3 + 3] = stored(pt)[3]]

\* nextIndex taking the array's length for the number of points
nextIndexOverElements(trace) ==
    (trace.currentIndex + 1) % Len(trace.positions)

\* (currentIndex + 1) % (positions.length / 3) (script.js 132)
nextIndex(trace) ==
    (trace.currentIndex + 1) % (Len(trace.positions) \div 3)

\* drawRangeAt with the window one point too long
drawRangeAtInclusive(p, index) ==
    LET start == Max(0, index - p.traceLength - 1)
        end == index
    IN [start |-> start, count |-> end - start]

\* the arguments of setDrawRange for the index just advanced to
\* (script.js 134-136)
drawRangeAt(p, index) ==
    LET start == Max(0, index - p.traceLength)
        end == index
    IN [start |-> start, count |-> end - start]

(* The body of updateLorenzSystem's forEach for one trace (script.js       *)
(* 123-139).  appended is history: the points written since the buffer was *)
(* created or cleared, as stored.                                          *)
updateTrace(p, trace) ==
    LET pt == eulerStep(p, trace)
        ni == nextIndex(trace)
    IN [trace EXCEPT !.x = pt.x, !.y = pt.y, !.z = pt.z,
                     !.positions = writePoint(@, trace.currentIndex, pt),
                     !.currentIndex = ni,
                     !.drawRange = drawRangeAt(p, ni),
                     !.appended = Append(@, stored(pt))]

\* updateLorenzSystem in which the traces after the first step from the
\* x of the first, as if x were kept in a variable shared by the traces
updateLorenzSystemSharedX(p, system) ==
    [i \in DOMAIN system |->
        updateTrace(p, IF i = 1 THEN system[i]
                       ELSE [system[i] EXCEPT !.x = system[1].x])]

\* updateLorenzSystem in which the traces after the first read a sigma
\* changed since the first read it
updateLorenzSystemTorn(p, system) ==
    [i \in DOMAIN system |->
        updateTrace(IF i = 1 THEN p ELSE [p EXCEPT !.sigma = @ + 1], system[i])]

\* updateLorenzSystem (script.js 120-141)
updateLorenzSystem(p, system) ==
    [i \in DOMAIN system |-> updateTrace(p, system[i])]

\* the for loop of animate (script.js 147-149), n iterations left
RECURSIVE updateTimes(_, _, _)
updateTimes(p, system, n) ==
    IF n = 0 THEN system
    ELSE updateTimes(p, updateLorenzSystem(p, system), n - 1)

\* animate without the isAnimating test
animateAlways(st) ==
    [st EXCEPT !.rafCallbacks = @ + 1,
               !.lorenzSystem =
                   updateTimes(st.params, @, LoopCount(st.params.animationSpeed))]

(* animate (script.js 144-156): registers itself for the next display      *)
(* frame, then steps the system when isAnimating.                          *)
animate(st) ==
    [st EXCEPT !.rafCallbacks = @ + 1,
               !.lorenzSystem =
                   IF st.isAnimating
                   THEN updateTimes(st.params, @, LoopCount(st.params.animationSpeed))
                   ELSE @]

\* toggleAnimation that stops a running animation but never starts one
toggleAnimationStopOnly(st) ==
    [st EXCEPT !.isAnimating = FALSE]

\* toggleAnimation (script.js 159-164)
toggleAnimation(st) ==
    LET flipped == [st EXCEPT !.isAnimating = ~@]
    IN IF flipped.isAnimating THEN animate(flipped) ELSE flipped

\* resetParams that leaves rho and restores dt
resetParamsWrongField(st) ==
    [st EXCEPT !.params.sigma = initialSigma,
               !.params.beta = initialBeta,
               !.params.dt = 100]

\* resetParams (script.js 168-172)
resetParams(st) ==
    [st EXCEPT !.params.sigma = initialSigma,
               !.params.beta = initialBeta,
               !.params.rho = initialRho]

\* createLorenzSystem that keeps the traces it has and adds the missing ones
createLorenzSystemKeeping(st) ==
    [st EXCEPT !.lorenzSystem =
                   [k \in 1..st.params.numTraces |->
                       IF k \in DOMAIN st.lorenzSystem THEN st.lorenzSystem[k]
                       ELSE [positions |-> Float32Array(Capacity * 3),
                             buffer |-> st.nextBuffer + k - 1,
                             currentIndex |-> 0,
                             drawRange |-> [start |-> 0, count |-> Infinity],
                             x |-> StartPointOf(st.params, k - 1).x,
                             y |-> StartPointOf(st.params, k - 1).y,
                             z |-> StartPointOf(st.params, k - 1).z,
                             appended |-> <<>>]],
               !.nextBuffer = (@ + maxNumTraces) % (2 * maxNumTraces)]

(* createLorenzSystem (script.js 80-117): a new trace per index, each with *)
(* a newly allocated Float32Array, seeded from params.startPoints.  The    *)
(* arrays of the traces it replaces are garbage, so identities are drawn   *)
(* alternately from two ranges of maxNumTraces: a new array never has the  *)
(* identity of a live one.                                                 *)
createLorenzSystem(st) ==
    [st EXCEPT !.lorenzSystem =
                   [k \in 1..st.params.numTraces |->
                       [positions |-> Float32Array(Capacity * 3),
                        buffer |-> st.nextBuffer + k - 1,
                        currentIndex |-> 0,
                        drawRange |-> [start |-> 0, count |-> Infinity],
                        x |-> StartPointOf(st.params, k - 1).x,
                        y |-> StartPointOf(st.params, k - 1).y,
                        z |-> StartPointOf(st.params, k - 1).z,
                        appended |-> <<>>]],
               !.nextBuffer = (@ + maxNumTraces) % (2 * maxNumTraces)]

\* clearTraces without positions.fill(0)
clearTracesNoFill(st, points) ==
    LET p == [st.params EXCEPT !.startPoints = points]
    IN [st EXCEPT !.params = p,
                  !.lorenzSystem =
                      [k \in DOMAIN st.lorenzSystem |->
                          [st.lorenzSystem[k] EXCEPT
                              !.currentIndex = 0,
                              !.x = StartPointOf(p, k - 1).x,
                              !.y = StartPointOf(p, k - 1).y,
                              !.z = StartPointOf(p, k - 1).z,
                              !.appended = <<>>]]]

\* clearTraces without currentIndex = 0
clearTracesKeepIndex(st, points) ==
    LET p == [st.params EXCEPT !.startPoints = points]
    IN [st EXCEPT !.params = p,
                  !.lorenzSystem =
                      [k \in DOMAIN st.lorenzSystem |->
                          [st.lorenzSystem[k] EXCEPT
                              !.positions = [s \in DOMAIN @ |-> 0],
                              !.x = StartPointOf(p, k - 1).x,
                              !.y = StartPointOf(p, k - 1).y,
                              !.z = StartPointOf(p, k - 1).z,
                              !.appended = <<>>]]]

(* clearTraces (script.js 175-186), points being what                      *)
(* generateRandomStartPoints(params.numTraces) returned.                   *)
clearTraces(st, points) ==
    LET p == [st.params EXCEPT !.startPoints = points]
    IN [st EXCEPT !.params = p,
                  !.lorenzSystem =
                      [k \in DOMAIN st.lorenzSystem |->
                          [st.lorenzSystem[k] EXCEPT
                              !.currentIndex = 0,
                              !.positions = [s \in DOMAIN @ |-> 0],
                              !.x = StartPointOf(p, k - 1).x,
                              !.y = StartPointOf(p, k - 1).y,
                              !.z = StartPointOf(p, k - 1).z,
                              !.appended = <<>>]]]

\* setField with the numTraces controller's onChange attached
setFieldRebuilding(st, field, v) ==
    createLorenzSystem([st EXCEPT !.params[field] = v])

\* a slider of sigma, rho, beta, dt, animationSpeed or traceLength: the
\* value is stored in its field of params (script.js 45-48, 52-57; the
\* traceLength value is the power of ten that its onChange stores)
setField(st, field, v) ==
    [st EXCEPT !.params[field] = v]

\* setNumTraces that also starts the animation on the new traces
setNumTracesStarting(st, n) ==
    [createLorenzSystem([st EXCEPT !.params.numTraces = n]) EXCEPT
        !.isAnimating = TRUE]

\* the numTraces slider: dat.GUI stores the value, then onChange runs
\* createLorenzSystem (script.js 49)
setNumTraces(st, n) ==
    createLorenzSystem([st EXCEPT !.params.numTraces = n])

----------------------------------------------------------------------------
(* The state once the script has run to its end: the params object         *)
(* (15-26), init() (222) and toggleAnimation() (223).                      *)

initialParams(points) ==
    [sigma |-> initialSigma, rho |-> initialRho, beta |-> initialBeta,
     dt |-> 100, numTraces |-> initialNumTraces, traceLength |-> 1000,
     startPoints |-> points, animationSpeed |-> 10]

Loaded(points) ==
    toggleAnimation(
        createLorenzSystem([params |-> initialParams(points),
                            lorenzSystem |-> <<>>,
                            isAnimating |-> FALSE,
                            rafCallbacks |-> 0,
                            nextBuffer |-> 0]))

Become(st) ==
    /\ params' = st.params
    /\ lorenzSystem' = st.lorenzSystem
    /\ isAnimating' = st.isAnimating
    /\ rafCallbacks' = st.rafCallbacks
    /\ nextBuffer' = st.nextBuffer

Init ==
    /\ \E points \in generateRandomStartPoints(initialNumTraces) :
           /\ params = Loaded(points).params
           /\ lorenzSystem = Loaded(points).lorenzSystem
           /\ isAnimating = Loaded(points).isAnimating
           /\ rafCallbacks = Loaded(points).rafCallbacks
           /\ nextBuffer = Loaded(points).nextBuffer
    /\ frameQueue = 0
    /\ edits = 0
    /\ lastOp = "load"

----------------------------------------------------------------------------
(* Actions *)

\* appends the traces can still take
Room(n) == \A k \in DOMAIN lorenzSystem :
               Len(lorenzSystem[k].appended) + n <= MaxAppends

StepsPerFrame == LoopCount(params.animationSpeed)

(* The browser runs one registered animate callback.  The callbacks of one *)
(* display frame run back to back: a frame starts when frameQueue is 0 and *)
(* no handler runs until the frame's callbacks have all run.               *)
Animate ==
    /\ rafCallbacks > 0
    /\ frameQueue = 0 /\ isAnimating => Room(rafCallbacks * StepsPerFrame)
    /\ frameQueue' = (IF frameQueue = 0 THEN rafCallbacks ELSE frameQueue) - 1
    /\ Become(animate([Cur EXCEPT !.rafCallbacks = @ - 1]))
    /\ lastOp' = "animate"
    /\ UNCHANGED edits

ToggleAnimation ==
    /\ frameQueue = 0
    /\ ~isAnimating => (rafCallbacks < MaxCallbacks /\ Room(StepsPerFrame))
    /\ Become(toggleAnimation(Cur))
    /\ lastOp' = "toggleAnimation"
    /\ UNCHANGED <<frameQueue, edits>>

ResetParams ==
    /\ frameQueue = 0
    /\ Become(resetParams(Cur))
    /\ lastOp' = "resetParams"
    /\ UNCHANGED <<frameQueue, edits>>

ClearTraces ==
    /\ frameQueue = 0
    /\ \E points \in generateRandomStartPoints(params.numTraces) :
           Become(clearTraces(Cur, points))
    /\ lastOp' = "clearTraces"
    /\ UNCHANGED <<frameQueue, edits>>

SetNumTraces ==
    /\ frameQueue = 0
    /\ \E n \in NumTracesSet :
           /\ Become(setNumTraces(Cur, n))
    /\ lastOp' = "setNumTraces"
    /\ UNCHANGED <<frameQueue, edits>>

\* a slider bound to one field of params (script.js 45-48, 52-57)
SetField(field, values) ==
    /\ frameQueue = 0
    /\ edits < MaxEdits
    /\ \E v \in values :
           /\ v # params[field]
           /\ Become(setField(Cur, field, v))
    /\ edits' = edits + 1
    /\ lastOp' = field
    /\ UNCHANGED frameQueue

SetSigma == SetField("sigma", SigmaSet)
SetRho == SetField("rho", RhoSet)
SetBeta == SetField("beta", BetaSet)
SetDt == SetField("dt", DtSet)
SetAnimationSpeed == SetField("animationSpeed", AnimationSpeedSet)
SetTraceLength == SetField("traceLength", TraceLengthSet)

Next ==
    \/ Animate
    \/ ToggleAnimation
    \/ ResetParams
    \/ ClearTraces
    \/ SetNumTraces
    \/ SetSigma
    \/ SetRho
    \/ SetBeta
    \/ SetDt
    \/ SetAnimationSpeed
    \/ SetTraceLength

Spec == Init /\ [][Next]_vars

----------------------------------------------------------------------------
(* The frame callback of src/app/components/ThreeScene.tsx, over the same  *)
(* trace records: for each trace in turn, all the steps of the frame.  It  *)
(* sets no draw range.                                                     *)

\* lorenzDerivatives (ThreeScene.tsx 94-102): the derivatives, returned
\* in the fields x, y, z
lorenzDerivativesTsx(p, x, y, z) ==
    LET dx == p.sigma * (y - x)
        dy == (x * (p.rho * 1000 - z)) \div 1000 - y
        dz == (x * y) \div 1000 - (p.beta * z) \div 3
    IN [x |-> dx, y |-> dy, z |-> dz]

\* the body of the for loop (ThreeScene.tsx 108-117)
stepTraceTsx(p, trace) ==
    LET d == lorenzDerivativesTsx(p, trace.x, trace.y, trace.z)
        pt == [x |-> trace.x + (d.x * p.dt) \div 10000,
               y |-> trace.y + (d.y * p.dt) \div 10000,
               z |-> trace.z + (d.z * p.dt) \div 10000]
    IN [trace EXCEPT !.x = pt.x, !.y = pt.y, !.z = pt.z,
                     !.positions = writePoint(@, trace.currentIndex, pt),
                     !.currentIndex =
                         (trace.currentIndex + 1) % (Len(trace.positions) \div 3),
                     !.appended = Append(@, stored(pt))]

\* the for loop of one trace (ThreeScene.tsx 107-118), n iterations left
RECURSIVE stepTraceTimesTsx(_, _, _)
stepTraceTimesTsx(p, trace, n) ==
    IF n = 0 THEN trace
    ELSE stepTraceTimesTsx(p, stepTraceTsx(p, trace), n - 1)

\* the useFrame callback (ThreeScene.tsx 104-124)
useFrameCallback(animating, p, system) ==
    IF animating
    THEN [i \in DOMAIN system |->
             stepTraceTimesTsx(p, system[i], LoopCount(p.animationSpeed))]
    ELSE system

----------------------------------------------------------------------------
(* A count outside the slider's range.  The numTraces controller is        *)
(* created with the range 1..10 (script.js 49): a value typed into its box *)
(* is brought into the range before it is stored, and onChange then runs   *)
(* createLorenzSystem, which tests nothing (80-117).                       *)

OutOfRangeCounts == {0 - 1, 0}

\* the value the controller stores for the value asked for
clampNumTraces(v) == Max(1, Min(maxNumTraces, v))

SetNumTracesOutOfRange ==
    /\ frameQueue = 0
    /\ \E v \in OutOfRangeCounts :
           Become(setNumTraces(Cur, clampNumTraces(v)))
    /\ lastOp' = "numTracesOutOfRange"
    /\ UNCHANGED <<frameQueue, edits>>

NextWithOutOfRange ==
    \/ Next
    \/ SetNumTracesOutOfRange

SpecWithOutOfRange == Init /\ [][NextWithOutOfRange]_vars

----------------------------------------------------------------------------
(* Properties *)

Traces == DOMAIN lorenzSystem

\* the spec's written counter: points held since creation or the last clear
Written(trace) == Min(Len(trace.appended), Capacity)

\* slot j (from 0) of a positions array, as a point
Slot(positions, j) ==
    <<positions[j * 3 + 1], positions[j * 3 + 2], positions[j * 3 + 3]>>

\* the step just taken was an animate callback / a handler that appended
AnimateRan == lastOp' = "animate"

(* C1: while the engine is paused (isAnimating false), an animate call     *)
(* performs no integrator step: every trace's state, buffer contents and   *)
(* index are as they were before the call.                                 *)
C1_PausedFrameDoesNothing ==
    [][(AnimateRan /\ ~isAnimating) =>
         /\ lorenzSystem' = lorenzSystem
         /\ isAnimating' = isAnimating]_vars

\* a frame ran while paused, over buffers that hold points
C1_Witness ==
    /\ lastOp = "animate"
    /\ ~isAnimating
    /\ \E k \in Traces : Len(lorenzSystem[k].appended) >= 2

(* C2: the engine is running once the script has loaded, toggleAnimation   *)
(* flips isAnimating, and two toggleAnimation calls in a row leave         *)
(* isAnimating as it was before them.                                      *)
C2_ToggleTwiceRestores ==
    /\ isAnimating = TRUE
    /\ [][lastOp' = "toggleAnimation" => isAnimating' = ~isAnimating]_vars
    /\ [](toggleAnimation(toggleAnimation(Cur)).isAnimating = isAnimating)

\* the animation was stopped and started again
C2_Witness ==
    /\ lastOp = "toggleAnimation"
    /\ isAnimating
    /\ rafCallbacks = 2

(* C3: an animate call while running, with animationSpeed a whole number   *)
(* n >= 1, appends exactly n points to every trace: the index advances by  *)
(* n modulo the capacity, n points are written, the last of them the       *)
(* trace's new state as stored, and no trace is added or removed.          *)
C3_FrameTakesStepsPerFrame ==
    [][(AnimateRan /\ isAnimating /\ params.animationSpeed % 10 = 0
           /\ params.animationSpeed >= 10) =>
         LET n == params.animationSpeed \div 10
         IN /\ DOMAIN lorenzSystem' = DOMAIN lorenzSystem
            /\ \A k \in DOMAIN lorenzSystem :
                   LET old == lorenzSystem[k]
                       new == lorenzSystem'[k]
                   IN /\ new.currentIndex = (old.currentIndex + n) % Capacity
                      /\ Len(new.appended) = Len(old.appended) + n
                      /\ SubSeq(new.appended, 1, Len(old.appended)) = old.appended
                      /\ new.appended[Len(new.appended)] = stored(new)]_vars

\* a running frame of two steps took a trace's index past the end
C3_Witness ==
    /\ lastOp = "animate"
    /\ isAnimating
    /\ params.animationSpeed = 20
    /\ \E k \in Traces : /\ Len(lorenzSystem[k].appended) = Capacity + 1
                          /\ lorenzSystem[k].currentIndex = 1

\* every slot of a positions array is zero
AllZero(positions) == \A s \in DOMAIN positions : positions[s] = 0

\* the buffer is as a new one: index 0, nothing written, all slots zero
EmptyBuffer(trace) ==
    /\ trace.currentIndex = 0
    /\ Written(trace) = 0
    /\ AllZero(trace.positions)

(* C4: in every state between handlers the number of traces is            *)
(* params.numTraces, and right after the numTraces slider's handler there  *)
(* are exactly numTraces traces, each with an empty buffer of full size.   *)
C4_TraceCountIsNumTraces ==
    /\ Len(lorenzSystem) = params.numTraces
    /\ lastOp = "setNumTraces" =>
           \A k \in Traces : /\ EmptyBuffer(lorenzSystem[k])
                              /\ Len(lorenzSystem[k].positions) = Capacity * 3

\* the slider took the count from 3 to 2
C4_Witness ==
    /\ lastOp = "setNumTraces"
    /\ Len(lorenzSystem) = 2
    /\ initialNumTraces # 2

(* C5: right after the numTraces slider's handler, params.startPoints is a *)
(* sequence generated for numTraces points and trace i is seeded with its  *)
(* i-th point, a point of its own.  The handler generates nothing: it      *)
(* reads the startPoints it finds, modulo their number.                    *)
C5_SetTraceCountSeedsFromNewPoints ==
    lastOp = "setNumTraces" =>
        /\ Len(params.startPoints) = params.numTraces
        /\ \A k \in Traces :
               /\ lorenzSystem[k].x = params.startPoints[k].x
               /\ lorenzSystem[k].y = params.startPoints[k].y
               /\ lorenzSystem[k].z = params.startPoints[k].z

(* C6: clearTraces stores a sequence generated for numTraces points in     *)
(* params.startPoints and, for every trace, zeroes the whole positions     *)
(* array, sets currentIndex to 0 and the state to the trace's own new      *)
(* start point; the array is the same object with the same length, and the *)
(* traces are as many as before.                                           *)
C6_ClearTracesResetsInPlace ==
    [][lastOp' = "clearTraces" =>
         /\ params'.startPoints \in generateRandomStartPoints(params.numTraces)
         /\ DOMAIN lorenzSystem' = DOMAIN lorenzSystem
         /\ \A k \in DOMAIN lorenzSystem :
                LET old == lorenzSystem[k]
                    new == lorenzSystem'[k]
                IN /\ EmptyBuffer(new)
                   /\ new.buffer = old.buffer
                   /\ Len(new.positions) = Len(old.positions)
                   /\ new.x = params'.startPoints[k].x
                   /\ new.y = params'.startPoints[k].y
                   /\ new.z = params'.startPoints[k].z]_vars

\* traces that held a point were cleared and got start points that differ
C6_Witness ==
    /\ lastOp = "clearTraces"
    /\ \A k \in Traces : /\ EmptyBuffer(lorenzSystem[k])
                          /\ lorenzSystem[k].drawRange.count = 1
                          /\ lorenzSystem[k].drawRange.start = 0
    /\ params.traceLength = 1000
    /\ params.startPoints[1] # params.startPoints[2]

\* the appends i of 1..n that went to slot j
AppendsToSlot(n, j) == { i \in 1..n : (i - 1) % Capacity = j }

\* the greatest element of a non-empty set of numbers
Greatest(S) == CHOOSE m \in S : \A i \in S : i <= m

(* C7: after n appends since creation or the last clear a buffer holds the *)
(* most recent min(n, C) points: slot j holds the latest point whose       *)
(* append went to j, and is zero when none did.  With n = C the index is   *)
(* back at 0 and the slots are the C points in order; with n = C + k the   *)
(* k oldest points are the ones no slot holds.                             *)
C7_BufferHoldsMostRecent ==
    [] \A k \in Traces :
        LET trace == lorenzSystem[k]
            n == Len(trace.appended)
        IN /\ \A j \in 0..(Capacity - 1) :
                  Slot(trace.positions, j) =
                      IF AppendsToSlot(n, j) = {} THEN <<0, 0, 0>>
                      ELSE trace.appended[Greatest(AppendsToSlot(n, j))]
           /\ { Greatest(AppendsToSlot(n, j)) :
                   j \in { i \in 0..(Capacity - 1) : AppendsToSlot(n, i) # {} } }
                 = (Max(0, n - Capacity) + 1)..n
           /\ n = Capacity => trace.currentIndex = 0 /\ Written(trace) = Capacity

\* a buffer that has taken more points than it holds
C7_Witness ==
    \E k \in Traces :
        /\ Len(lorenzSystem[k].appended) = Capacity + 1
        /\ Slot(lorenzSystem[k].positions, 0) = lorenzSystem[k].appended[Capacity + 1]
        /\ Slot(lorenzSystem[k].positions, 0) # lorenzSystem[k].appended[1]

(* C8: in every state every trace has 0 <= currentIndex < C, currentIndex  *)
(* equal to the number of appends since creation or the last clear modulo  *)
(* C, and a positions array of C points.                                   *)
C8_IndexIsAppendsModCapacity ==
    \A k \in Traces :
        /\ lorenzSystem[k].currentIndex \in 0..(Capacity - 1)
        /\ lorenzSystem[k].currentIndex = Len(lorenzSystem[k].appended) % Capacity
        /\ Len(lorenzSystem[k].positions) = Capacity * 3

\* the traces were rebuilt by the slider and then run past the wrap
C8_Witness ==
    /\ params.numTraces = 2
    /\ \E k \in Traces : /\ Len(lorenzSystem[k].appended) = Capacity + 1
                          /\ lorenzSystem[k].currentIndex = 1

\* the step just taken appended to every trace
Appended ==
    \/ lastOp = "load"
    \/ lastOp = "animate" /\ isAnimating
    \/ lastOp = "toggleAnimation" /\ isAnimating

(* C9: after an append the draw range is start = max(0, index -            *)
(* traceLength), count = index - start, for the index the append advanced  *)
(* to: its slots hold the last count points appended, in order, count is   *)
(* at most traceLength, and the range holds only points written since the  *)
(* index last wrapped (none right after the C-th append).                  *)
C9_DrawRangeAfterAppend ==
    Appended =>
        \A k \in Traces :
            LET trace == lorenzSystem[k]
                n == Len(trace.appended)
                head == trace.currentIndex
                start == Max(0, head - params.traceLength)
                count == head - start
            IN /\ trace.drawRange = [start |-> start, count |-> count]
               /\ count <= params.traceLength
               /\ count <= n % Capacity
               /\ \A i \in 1..count :
                      Slot(trace.positions, start + i - 1) = trace.appended[n - count + i]
               /\ n = Capacity => count = 0

\* a window shorter than the run since the wrap, and the empty window
C9_Witness ==
    /\ Appended
    /\ params.traceLength = 1
    /\ \E k \in Traces : /\ lorenzSystem[k].currentIndex = 2
                          /\ lorenzSystem[k].drawRange = [start |-> 1, count |-> 1]

(* C10: resetParams sets sigma, rho and beta to 10, 28 and 8/3 and changes *)
(* nothing else: not dt, animationSpeed, numTraces, traceLength or         *)
(* startPoints, no trace, not isAnimating.                                 *)
C10_ResetParamsRestoresDefaults ==
    [][lastOp' = "resetParams" =>
         /\ params' = [params EXCEPT !.sigma = 10, !.rho = 28, !.beta = 8]
         /\ lorenzSystem' = lorenzSystem
         /\ isAnimating' = isAnimating
         /\ rafCallbacks' = rafCallbacks]_vars

\* the one edit made was undone by resetParams, over traces that had moved
C10_Witness ==
    /\ lastOp = "resetParams"
    /\ edits = 1
    /\ params.sigma = 10 /\ params.rho = 28 /\ params.beta = 8
    /\ params.dt = 100 /\ params.animationSpeed = 10
    /\ params.traceLength = 1000
    /\ \E k \in Traces : Len(lorenzSystem[k].appended) >= 2

(* C11: a trace count of 0 or less is refused: the handler leaves the      *)
(* traces and params.numTraces as they were, it neither empties the        *)
(* collection nor replaces the count by one in range.  (The code refuses   *)
(* nothing: the count is brought into 1..10 and the traces are rebuilt.)   *)
C11_InvalidCountRejected ==
    [][lastOp' = "numTracesOutOfRange" =>
         /\ lorenzSystem' = lorenzSystem
         /\ params' = params]_vars

\* n Euler steps of a point, all with the parameters p
RECURSIVE EulerIterate(_, _, _)
EulerIterate(p, pt, n) ==
    IF n = 0 THEN pt ELSE EulerIterate(p, eulerStep(p, pt), n - 1)

\* the step being taken runs the loop of animate
FrameSteps ==
    \/ lastOp' = "animate" /\ isAnimating
    \/ lastOp' = "toggleAnimation" /\ ~isAnimating

(* C12: every step of every trace in one animate call is taken with the    *)
(* same sigma, rho, beta, dt and animationSpeed, those params holds before *)
(* and after the call; and no params field changes while callbacks of a    *)
(* display frame are still to run.                                         *)
C12_FrameReadsOneParameterSet ==
    [][/\ lastOp' = "animate" => params' = params
       /\ frameQueue > 0 => params' = params
       /\ FrameSteps =>
              /\ DOMAIN lorenzSystem' = DOMAIN lorenzSystem
              /\ \A k \in DOMAIN lorenzSystem :
                     LET to == EulerIterate(params', lorenzSystem[k],
                                            LoopCount(params'.animationSpeed))
                     IN /\ lorenzSystem'[k].x = to.x
                        /\ lorenzSystem'[k].y = to.y
                        /\ lorenzSystem'[k].z = to.z]_vars

\* the first of two callbacks of one frame took two steps on three traces
C12_Witness ==
    /\ lastOp = "animate"
    /\ isAnimating
    /\ frameQueue = 1
    /\ params.animationSpeed = 20
    /\ Len(lorenzSystem) = 3
    /\ \A k \in Traces : Len(lorenzSystem[k].appended) = 2

\* the fields of params the sliders other than numTraces are bound to
SliderFields == {"sigma", "rho", "beta", "dt", "animationSpeed", "traceLength"}

(* C13: a slider of sigma, rho, beta, dt, animationSpeed or traceLength    *)
(* changes its own field of params and nothing else: no other field, no    *)
(* trace's state, positions or currentIndex, not the number of traces.     *)
C13_SliderChangesOnlyItsField ==
    [][lastOp' \in SliderFields =>
         /\ params'[lastOp'] # params[lastOp']
         /\ \A f \in DOMAIN params : f # lastOp' => params'[f] = params[f]
         /\ DOMAIN params' = DOMAIN params
         /\ lorenzSystem' = lorenzSystem
         /\ isAnimating' = isAnimating]_vars

\* dt was changed under traces that had moved and went on unchanged
C13_Witness ==
    /\ lastOp = "dt"
    /\ params.dt = 50
    /\ \A k \in Traces : /\ Len(lorenzSystem[k].appended) = 2
                          /\ lorenzSystem[k].currentIndex = 2

(* C14: the numTraces slider, clearTraces, the other sliders and          *)
(* resetParams leave isAnimating as it is, whether the animation runs or   *)
(* is stopped, and each of them can run in both cases; isAnimating changes *)
(* only in toggleAnimation.                                                *)
C14_OnlyToggleChangesPause ==
    /\ [][isAnimating' # isAnimating => lastOp' = "toggleAnimation"]_vars
    /\ [](/\ resetParams(Cur).isAnimating = isAnimating
          /\ \A n \in NumTracesSet : setNumTraces(Cur, n).isAnimating = isAnimating
          /\ \A pts \in generateRandomStartPoints(params.numTraces) :
                 clearTraces(Cur, pts).isAnimating = isAnimating
          /\ \A v \in SigmaSet : setField(Cur, "sigma", v).isAnimating = isAnimating)

\* the traces were rebuilt by the slider while the animation was stopped
C14_Witness ==
    /\ lastOp = "setNumTraces"
    /\ ~isAnimating
    /\ Len(lorenzSystem) = 2

(* C15: one step takes (x, y, z) to (x + sigma (y - x) dt,                *)
(* y + (x (rho - z) - y) dt, z + (x y - beta z) dt), every derivative      *)
(* taken from the x, y, z before the step; with sigma 10, rho 28, beta     *)
(* 8/3 and dt 0.01, (0.1, 0, 0) becomes (0.09, 0.028, 0).  Numbers are in  *)
(* the units of this module: thousandths, beta in thirds, dt in            *)
(* ten-thousandths.                                                        *)
C15_EulerStepFromOldState ==
    /\ [][(FrameSteps /\ LoopCount(params'.animationSpeed) = 1) =>
            \A k \in DOMAIN lorenzSystem :
                LET old == lorenzSystem[k]
                    new == lorenzSystem'[k]
                    p == params
                IN /\ new.x = old.x + (p.sigma * (old.y - old.x) * p.dt) \div 10000
                   /\ new.y = old.y
                        + (((old.x * (p.rho * 1000 - old.z)) \div 1000 - old.y) * p.dt)
                            \div 10000
                   /\ new.z = old.z
                        + (((old.x * old.y) \div 1000 - (p.beta * old.z) \div 3) * p.dt)
                            \div 10000]_vars
    /\ [](\A k \in Traces :
             (/\ lastOp = "load"
              /\ params.startPoints[k] = [x |-> 100, y |-> 0, z |-> 0]
              /\ params.sigma = 10 /\ params.rho = 28 /\ params.beta = 8
              /\ params.dt = 100 /\ params.animationSpeed = 10)
             => (/\ lorenzSystem[k].x = 90
                 /\ lorenzSystem[k].y = 28
                 /\ lorenzSystem[k].z = 0))

\* steps were taken from a state with no coordinate 0 under a changed rho
C15_Witness ==
    /\ lastOp = "animate"
    /\ isAnimating
    /\ params.rho = 14
    /\ \E k \in Traces :
           /\ Len(lorenzSystem[k].appended) >= 3
           /\ lorenzSystem[k].appended[1][3] # 0
           /\ lorenzSystem[k].x # 0 /\ lorenzSystem[k].y # 0 /\ lorenzSystem[k].z # 0

(* C16: however often the animation was stopped and started, at most one *)
(* animate callback is registered, so a display frame runs animate once.   *)
(* (In the code animate registers itself again even while stopped, and     *)
(* every start calls animate once more: each start adds a callback.)       *)
C16_OneFrameLoop ==
    rafCallbacks <= 1

(* C17: in every state the draw range of every trace that has been given *)
(* one is the window of its current index, start = max(0, currentIndex -   *)
(* traceLength), count = currentIndex - start; so right after clearTraces, *)
(* running or stopped, it is (0, 0).  (In the code only updateLorenzSystem *)
(* sets the draw range: clearTraces and the traceLength slider leave the   *)
(* one of the last step.)                                                  *)
C17_DrawRangeIsWindowOfIndex ==
    \A k \in Traces :
        LET trace == lorenzSystem[k]
            start == Max(0, trace.currentIndex - params.traceLength)
        IN trace.drawRange.count # Infinity =>
               trace.drawRange = [start |-> start,
                                  count |-> trace.currentIndex - start]

\* what a trace is to the simulation: its state, buffer and index
Core(trace) ==
    [x |-> trace.x, y |-> trace.y, z |-> trace.z,
     positions |-> trace.positions, currentIndex |-> trace.currentIndex,
     appended |-> trace.appended]

(* C18: every frame the program takes step by step over all traces         *)
(* (animate of script.js) leaves every trace with the state, positions and *)
(* currentIndex that a frame taken trace by trace over all steps (the      *)
(* useFrame callback of ThreeScene.tsx) gives from the same traces and     *)
(* params; and stepping the collection does to each trace what stepping    *)
(* that trace alone does, whatever the other traces are.                   *)
C18_StepMajorEqualsTraceMajor ==
    [][FrameSteps =>
         LET traceMajor == useFrameCallback(TRUE, params, lorenzSystem)
             together == updateLorenzSystem(params, lorenzSystem)
         IN /\ DOMAIN lorenzSystem' = DOMAIN traceMajor
            /\ \A k \in Traces :
                   /\ Core(lorenzSystem'[k]) = Core(traceMajor[k])
                   /\ Core(together[k])
                        = Core(updateLorenzSystem(params, <<lorenzSystem[k]>>)[1])]_vars

\* three traces in different states after a frame of two steps that
\* wrapped their index
C18_Witness ==
    /\ lastOp = "animate"
    /\ isAnimating = TRUE
    /\ params.animationSpeed = 20
    /\ Len(lorenzSystem) = 3
    /\ \A k \in Traces :
           /\ lorenzSystem[k].currentIndex = 1
           /\ Len(lorenzSystem[k].appended) = Capacity + 1
    /\ Core(lorenzSystem[1]) # Core(lorenzSystem[2])
    /\ Core(lorenzSystem[2]) # Core(lorenzSystem[3])

\* the slot written last: (currentIndex - 1) mod C
LastSlot(trace) ==
    Slot(trace.positions, (trace.currentIndex + Capacity - 1) % Capacity)

(* C19 as claimed: a trace that has had an append since its creation or    *)
(* last clear has its state (x, y, z) equal to the point in slot           *)
(* (currentIndex - 1) mod C.  (The slot holds Float32Array elements: the   *)
(* state rounded to single precision, which need not equal the state.)     *)
C19_StateEqualsLastSlot ==
    \A k \in Traces :
        Len(lorenzSystem[k].appended) >= 1 =>
            LastSlot(lorenzSystem[k])
                = <<lorenzSystem[k].x, lorenzSystem[k].y, lorenzSystem[k].z>>

(* C19 as amended: a trace that has had an append since its creation or    *)
(* last clear has, in slot (currentIndex - 1) mod C, its state (x, y, z)   *)
(* as Float32Array elements hold it, each coordinate rounded to single     *)
(* precision; that point is the last one appended.                         *)
C19_LastSlotIsRoundedState ==
    [] \A k \in Traces :
        Len(lorenzSystem[k].appended) >= 1 =>
            /\ LastSlot(lorenzSystem[k])
                 = <<Fround(lorenzSystem[k].x), Fround(lorenzSystem[k].y),
                     Fround(lorenzSystem[k].z)>>
            /\ LastSlot(lorenzSystem[k])
                 = lorenzSystem[k].appended[Len(lorenzSystem[k].appended)]

\* a trace past the wrap whose state is not a number a slot can hold
C19_Witness ==
    \E k \in Traces :
        /\ Len(lorenzSystem[k].appended) > Capacity
        /\ lorenzSystem[k].currentIndex = 1
        /\ Fround(lorenzSystem[k].x) # lorenzSystem[k].x

====
